---- MODULE Spec2Model ----
(***************************************************************************)
(* Model of the rle-eddy repository: the Goldbox RLE codec                 *)
(* (src/rle_goldbox.h), the callers that drive it (src/test_rle.c,         *)
(* src/fuzzing/afl_driver.c) and the rule sets and table generator of      *)
(* src/rle-genops.c.                                                       *)
(*                                                                         *)
(* Bytes are the integers 0..255.  A C buffer of n bytes is a sequence of  *)
(* length n; C offset k is sequence index k+1.                             *)
(***************************************************************************)
EXTENDS Integers, Sequences, FiniteSets, TLC

----------------------------------------------------------------------------
(* Bounds of the model *)

MaxLen == 6
MaxPad == 1
MaxRun == 130
MaxStream == 4
SmallCap == 2
Slack == 3

(* Program constants *)

RepCap == 126
CpyCap == 126

----------------------------------------------------------------------------
(* Input sets *)

Vals == {65, 66}
RunVals == {0, 65, 255}
DecBytes == {0, 1, 126, 128, 254, 255}
JunkBytes == {0, 255}
FillBytes == {170}

ShortSeqs(S, n) == UNION {[1..k -> S] : k \in 0..n}
RepSeq(v, n) == [i \in 1..n |-> v]
AltSeq(v, w, n) == [i \in 1..n |-> IF i % 2 = 1 THEN v ELSE w]

LongLens == {CpyCap, CpyCap + 1, CpyCap + 2, CpyCap + 3}
LongBodies ==
    {RepSeq(v, n) : v \in Vals, n \in LongLens}
    \cup {AltSeq(vw[1], vw[2], n) : vw \in {p \in Vals \X Vals : p[1] # p[2]}, n \in LongLens}

CompressSources ==
    ShortSeqs(Vals, MaxLen)
    \cup {RepSeq(v, n) : v \in RunVals, n \in 1..MaxRun}
    \cup {pre \o body \o suf : pre \in ShortSeqs(Vals, MaxPad),
                               body \in LongBodies,
                               suf \in ShortSeqs(Vals, MaxPad)}

DecompressSources ==
    ShortSeqs(DecBytes, MaxStream)
    \cup {<<b, v>> : b \in 128..255, v \in RunVals}

----------------------------------------------------------------------------
(* One call of a codec entry point: arguments and locals.  op, n and b are
   the branch (REP or CPY) the last pass of the loop took, its count of
   bytes, and its control byte. *)

NewCall(s, hd, dl) ==
    [src |-> s, hasDest |-> hd, dlen |-> dl,
     dest |-> IF hd THEN [i \in 1..dl |-> CHOOSE f \in FillBytes : TRUE] ELSE <<>>,
     rp |-> 0, wp |-> 0,
     wr |-> {}, oobw |-> FALSE, oobr |-> FALSE, afail |-> FALSE,
     op |-> "none", n |-> 0, b |-> 0]

(* dest[off] = val.  A store outside the destination is recorded, not done. *)
Store(c, off, val) ==
    IF c.hasDest /\ off < c.dlen
    THEN [c EXCEPT !.dest[off + 1] = val, !.wr = @ \cup {off}]
    ELSE [c EXCEPT !.oobw = TRUE]

(* The stores dest[first + i] = val[i] of the loop iterations i in I *)
StoreAll(c, I, first, val) ==
    LET inb == {i \in I : c.hasDest /\ first + i < c.dlen}
    IN  [c EXCEPT !.dest = [k \in 1..Len(c.dest) |->
                               IF (k - 1 - first) \in inb THEN val[k - 1 - first] ELSE c.dest[k]],
                  !.wr = @ \cup {first + i : i \in inb},
                  !.oobw = @ \/ inb # I]

(* src[idx]; a read at or beyond slen yields an arbitrary byte. *)
Load(c, idx, junk) == IF idx < Len(c.src) THEN c.src[idx + 1] ELSE junk

----------------------------------------------------------------------------
(* goldbox_compress *)

RECURSIVE CountSame(_, _, _)
CountSame(s, rp, cnt) ==
    IF rp + cnt + 1 < Len(s) /\ s[rp + cnt + 1] = s[rp + cnt + 2] /\ cnt < RepCap
    THEN CountSame(s, rp, cnt + 1)
    ELSE cnt

RECURSIVE CountDiff_Wide(_, _, _)
CountDiff_Wide(s, rp, cnt) ==
    IF rp + cnt + 1 < Len(s) /\ s[rp + cnt + 1] # s[rp + cnt + 2] /\ cnt < CpyCap + 1
    THEN CountDiff_Wide(s, rp, cnt + 1)
    ELSE cnt

RECURSIVE CountDiff(_, _, _)
CountDiff(s, rp, cnt) ==
    IF rp + cnt + 1 < Len(s) /\ s[rp + cnt + 1] # s[rp + cnt + 2] /\ cnt < CpyCap
    THEN CountDiff(s, rp, cnt + 1)
    ELSE cnt

CompressLoopCond(c) == c.rp < Len(c.src) /\ (c.wp < c.dlen \/ ~c.hasDest)

RepSecondGuard_OffByOne(c) == c.wp + 2 < c.dlen

RepSecondGuard(c) == c.wp + 1 < c.dlen

EmitRep_Negate(c, cnt) ==
    LET w == IF c.hasDest /\ c.dlen > 0
             THEN LET a == Store(c, c.wp, (256 - cnt) % 256)
                  IN  IF RepSecondGuard(c)
                      THEN Store(a, c.wp + 1, c.src[c.rp + 1])
                      ELSE a
             ELSE c
    IN  [w EXCEPT !.wp = c.wp + 2, !.rp = c.rp + cnt + 1,
                  !.op = "REP", !.n = cnt + 1, !.b = (256 - cnt) % 256]

EmitRep(c, cnt) ==
    LET w == IF c.hasDest /\ c.dlen > 0
             THEN LET a == Store(c, c.wp, 255 - cnt)
                  IN  IF RepSecondGuard(c)
                      THEN Store(a, c.wp + 1, c.src[c.rp + 1])
                      ELSE a
             ELSE c
    IN  [w EXCEPT !.wp = c.wp + 2, !.rp = c.rp + cnt + 1,
                  !.op = "REP", !.n = cnt + 1, !.b = 255 - cnt]

(* for (i = 0; i < cnt && wp + 1 + i < dlen; ++i) dest[wp + 1 + i] = src[rp + i]
   The loop guard fails for good at the first i it rejects, so the iterations
   run are the i below cnt that satisfy it. *)
CompressCopyGuard_Short(c, i) == c.wp + 1 + i < c.dlen - 1

CompressCopyGuard(c, i) == c.wp + 1 + i < c.dlen

CompressCopyLoop(c, base, cnt) ==
    StoreAll(c, {i \in 0..(cnt - 1) : CompressCopyGuard(base, i)},
             base.wp + 1, [i \in 0..(cnt - 1) |-> base.src[base.rp + i + 1]])

EmitCpy_SkipByte(c, cnt) ==
    LET w == IF c.hasDest /\ c.dlen > 0
             THEN CompressCopyLoop(Store(c, c.wp, (cnt + 255) % 256), c, cnt)
             ELSE c
    IN  [w EXCEPT !.rp = c.rp + cnt + 1, !.wp = c.wp + cnt + 1,
                  !.afail = c.afail \/ ~(cnt > 0),
                  !.op = "CPY", !.n = cnt, !.b = (cnt + 255) % 256]

EmitCpy(c, cnt) ==
    LET w == IF c.hasDest /\ c.dlen > 0
             THEN CompressCopyLoop(Store(c, c.wp, (cnt + 255) % 256), c, cnt)
             ELSE c
    IN  [w EXCEPT !.rp = c.rp + cnt, !.wp = c.wp + cnt + 1,
                  !.afail = c.afail \/ ~(cnt > 0),
                  !.op = "CPY", !.n = cnt, !.b = (cnt + 255) % 256]

goldbox_compress_iter_FoldTrailing(c) ==
    LET cnt == CountSame(c.src, c.rp, 0)
        cpy == CountDiff(c.src, c.rp, 0)
    IN  IF cnt > 0 \/ c.rp + cnt + 1 = Len(c.src)
        THEN EmitRep(c, cnt)
        ELSE IF c.rp + cpy + 1 = Len(c.src) /\ cpy < CpyCap
             THEN EmitCpy(c, cpy + 1)
             ELSE EmitCpy(c, cpy)

goldbox_compress_iter(c) ==
    LET cnt == CountSame(c.src, c.rp, 0)
    IN  IF cnt > 0 \/ c.rp + cnt + 1 = Len(c.src)
        THEN EmitRep(c, cnt)
        ELSE EmitCpy(c, CountDiff(c.src, c.rp, 0))

RECURSIVE goldbox_compress_loop(_)
goldbox_compress_loop(c) ==
    IF CompressLoopCond(c) THEN goldbox_compress_loop(goldbox_compress_iter(c)) ELSE c

goldbox_compress(s, hd, dl) == goldbox_compress_loop(NewCall(s, hd, dl))

----------------------------------------------------------------------------
(* goldbox_decompress *)

DecompressLoopCond_OffByOne(c) == c.rp < Len(c.src) /\ (c.wp + 1 < c.dlen \/ ~c.hasDest)

DecompressLoopCond(c) == c.rp < Len(c.src) /\ (c.wp < c.dlen \/ ~c.hasDest)

RepCount_NoInc(b) == (255 - b) % 256

RepCount(b) == ((255 - b) + 1) % 256
CpyCount(b) == (b + 1) % 256

DecompressGuard_Inclusive(c, i) == c.wp + i <= c.dlen

DecompressGuard(c, i) == c.wp + i < c.dlen

(* for (i = 0; i < cnt && wp + i < dlen; ++i) dest[wp + i] = *src
   where src already points past the control byte *)
DecompressRepLoop(c, cnt, junk) ==
    LET I == {i \in 0..(cnt - 1) : DecompressGuard(c, i)}
        w == StoreAll(c, I, c.wp, [i \in 0..(cnt - 1) |-> Load(c, c.rp + 1, junk)])
    IN  [w EXCEPT !.oobr = c.oobr \/ (I # {} /\ c.rp + 1 >= Len(c.src))]

(* for (i = 0; i < cnt && wp + i < dlen; ++i) dest[wp + i] = src[i] *)
DecompressCpyLoop(c, cnt, junk) ==
    LET I == {i \in 0..(cnt - 1) : DecompressGuard(c, i)}
        w == StoreAll(c, I, c.wp, [i \in 0..(cnt - 1) |-> Load(c, c.rp + 1 + i, junk)])
    IN  [w EXCEPT !.oobr = c.oobr \/ (\E i \in I : c.rp + 1 + i >= Len(c.src))]

goldbox_decompress_iter(c, junk) ==
    LET b == c.src[c.rp + 1]
    IN  IF b >= 128
        THEN LET cnt == RepCount(b)
                 w == IF c.hasDest /\ c.dlen > 0
                      THEN DecompressRepLoop(c, cnt, junk)
                      ELSE c
             IN  [w EXCEPT !.rp = c.rp + 2, !.wp = c.wp + cnt,
                           !.op = "REP", !.n = cnt, !.b = b]
        ELSE LET cnt == CpyCount(b)
                 w == IF c.hasDest /\ c.dlen > 0
                      THEN DecompressCpyLoop(c, cnt, junk)
                      ELSE c
             IN  [w EXCEPT !.rp = c.rp + 1 + cnt, !.wp = c.wp + cnt,
                           !.op = "CPY", !.n = cnt, !.b = b]

RECURSIVE goldbox_decompress_loop(_, _)
goldbox_decompress_loop(c, junk) ==
    IF DecompressLoopCond(c)
    THEN goldbox_decompress_loop(goldbox_decompress_iter(c, junk), junk)
    ELSE c

goldbox_decompress(s, hd, dl) == goldbox_decompress_loop(NewCall(s, hd, dl), 0)

(* The exit assertions of both entry points *)
ExitAssertCursor(c) == c.rp = Len(c.src)
ExitAssertBound(c) == ~c.hasDest \/ c.wp <= c.dlen

----------------------------------------------------------------------------
(* Callers *)

(* Length-determination call: dest == NULL, dlen == 0 *)
LenCheck(f, s) ==
    IF f = "compress" THEN goldbox_compress(s, FALSE, 0).wp
                      ELSE goldbox_decompress(s, FALSE, 0).wp

DlenChoices(f, s) ==
    LET L == LenCheck(f, s)
    IN  (0..SmallCap) \cup {L, L + Slack} \cup (IF L > 0 THEN {L - 1} ELSE {})

----------------------------------------------------------------------------
(* rle-genops.c: the rule sets *)

IntMax == 2147483647
IntMin == -IntMax - 1

Ops == {"CPY", "REP", "LIT", "NOP", "INVALID"}
TableOps == <<"CPY", "REP", "LIT">>
Parsers == {"goldbox", "packbits", "pcx"}

U8(x) == (x + 65536) % 256
S8(b) == IF b >= 128 THEN b - 256 ELSE b

RECURSIVE BitAnd(_, _, _)
BitAnd(a, b, bits) ==
    IF bits = 0 THEN 0
    ELSE (IF a % 2 = 1 /\ b % 2 = 1 THEN 1 ELSE 0) + 2 * BitAnd(a \div 2, b \div 2, bits - 1)

RECURSIVE BitOr(_, _, _)
BitOr(a, b, bits) ==
    IF bits = 0 THEN 0
    ELSE (IF a % 2 = 1 \/ b % 2 = 1 THEN 1 ELSE 0) + 2 * BitOr(a \div 2, b \div 2, bits - 1)

rle8(op, cnt) == [op |-> op, cnt |-> cnt]

rle8_decode_packbits(input) ==
    IF input > 128 THEN rle8("REP", U8(1 - S8(input)))
    ELSE IF input < 128 THEN rle8("CPY", U8(input + 1))
    ELSE IF input = 128 THEN rle8("NOP", 1)
    ELSE rle8("INVALID", 0)

rle8_encode_packbits(cmd) ==
    IF cmd.op = "REP"
    THEN IF cmd.cnt >= 2 /\ cmd.cnt <= 128 THEN rle8("REP", U8(257 - cmd.cnt))
                                           ELSE rle8("INVALID", 0)
    ELSE IF cmd.op = "CPY"
    THEN IF cmd.cnt >= 1 /\ cmd.cnt <= 128 THEN rle8("CPY", U8(cmd.cnt - 1))
                                           ELSE rle8("INVALID", 0)
    ELSE IF cmd.op = "NOP" THEN rle8("INVALID", 128)
    ELSE rle8("INVALID", 0)

rle8_decode_goldbox_WideCopy(input) ==
    IF input > 128 THEN rle8("REP", U8((-input - 1) + 1))
    ELSE IF input < 127 THEN rle8("CPY", U8(input + 1))
    ELSE rle8("INVALID", 0)

rle8_decode_goldbox(input) ==
    IF input > 128 THEN rle8("REP", U8((-input - 1) + 1))
    ELSE IF input < 126 THEN rle8("CPY", U8(input + 1))
    ELSE rle8("INVALID", 0)

rle8_encode_goldbox_WideCopy(cmd) ==
    IF cmd.op = "REP"
    THEN IF cmd.cnt >= 1 /\ cmd.cnt <= 127 THEN rle8("REP", U8(1 + (-cmd.cnt - 1)))
                                           ELSE rle8("INVALID", 0)
    ELSE IF cmd.op = "CPY"
    THEN IF cmd.cnt >= 1 /\ cmd.cnt <= 127 THEN rle8("CPY", U8(cmd.cnt - 1))
                                           ELSE rle8("INVALID", 0)
    ELSE rle8("INVALID", 0)

rle8_encode_goldbox(cmd) ==
    IF cmd.op = "REP"
    THEN IF cmd.cnt >= 1 /\ cmd.cnt <= 127 THEN rle8("REP", U8(1 + (-cmd.cnt - 1)))
                                           ELSE rle8("INVALID", 0)
    ELSE IF cmd.op = "CPY"
    THEN IF cmd.cnt >= 1 /\ cmd.cnt <= 126 THEN rle8("CPY", U8(cmd.cnt - 1))
                                           ELSE rle8("INVALID", 0)
    ELSE rle8("INVALID", 0)

rle8_decode_pcx(input) ==
    IF BitAnd(input, 192, 8) = 192 THEN rle8("REP", BitAnd(input, 63, 8))
    ELSE rle8("LIT", input)

rle8_encode_pcx(cmd) ==
    IF cmd.op = "REP"
    THEN IF cmd.cnt <= 63 THEN rle8("REP", U8(BitOr(192, cmd.cnt, 8)))
                          ELSE rle8("INVALID", 0)
    ELSE IF cmd.op = "LIT"
    THEN IF cmd.cnt <= 191 THEN rle8("LIT", cmd.cnt)
                           ELSE rle8("INVALID", 0)
    ELSE rle8("INVALID", 0)

(* struct rle_parser parsers[]: p->rle8_decode, p->rle8_encode *)
rle8_decode(p, input) ==
    IF p = "goldbox" THEN rle8_decode_goldbox(input)
    ELSE IF p = "packbits" THEN rle8_decode_packbits(input)
    ELSE rle8_decode_pcx(input)

rle8_encode(p, cmd) ==
    IF p = "goldbox" THEN rle8_encode_goldbox(cmd)
    ELSE IF p = "packbits" THEN rle8_encode_packbits(cmd)
    ELSE rle8_encode_pcx(cmd)

(* State of one run of the generator *)
NewGen(p, genc) ==
    [p |-> p,
     routine |-> IF genc THEN "decode_table" ELSE "display_ops",
     i |-> 0, k |-> 1, b |-> 0,
     cmd |-> rle8("INVALID", 0), code |-> rle8("INVALID", 0), coded |-> FALSE,
     dtab |-> <<>>,
     etab |-> [op \in {"CPY", "REP", "LIT"} |-> <<>>],
     minmax |-> [op \in {"CPY", "REP", "LIT"} |-> <<IntMax, IntMin>>],
     op_usage |-> [op \in Ops |-> 0],
     op_used |-> {},
     retval |-> 0]

GenIdle == [NewGen("goldbox", FALSE) EXCEPT !.routine = "idle"]
CallIdle == NewCall(<<>>, FALSE, 0)

----------------------------------------------------------------------------
(* test_utility.c: the run-counting helpers *)

TestMax == 128

(* One call rle_count_rep(src, len, max) or rle_count_cpy(src, len, max);
   src has exactly len bytes, and a read at or beyond len is recorded. *)
NewUtil(f, s, max) ==
    [f |-> f, src |-> s, len |-> Len(s), max |-> max,
     cnt |-> 0, at |-> "entry", oobr |-> FALSE]

UtilIdle == [NewUtil("rep", <<>>, 0) EXCEPT !.at = "idle"]

RepWhile_Inclusive(u, cnt) ==
    cnt + 1 <= u.len /\ cnt <= u.max /\ u.src[cnt] = u.src[cnt + 1]

(* (cnt + 1 <= len) && (cnt < max) && (src[cnt-1] == src[cnt]) *)
RepWhile(u, cnt) ==
    cnt + 1 <= u.len /\ cnt < u.max /\ u.src[cnt] = u.src[cnt + 1]

(* the operands of && before the comparison, which decide whether src is read *)
RepReads(u, cnt) == cnt + 1 <= u.len /\ cnt < u.max

CpyWhile_Inclusive(u, cnt) ==
    cnt + 1 <= u.len /\ cnt <= u.max /\ (cnt + 1 = u.len \/ u.src[cnt + 1] # u.src[cnt + 2])

(* (cnt + 1 <= len) && (cnt < max) && ((cnt + 1 == len) || (src[cnt] != src[cnt+1])) *)
CpyWhile(u, cnt) ==
    cnt + 1 <= u.len /\ cnt < u.max /\ (cnt + 1 = u.len \/ u.src[cnt + 1] # u.src[cnt + 2])

CpyReads(u, cnt) == cnt + 1 <= u.len /\ cnt < u.max /\ ~(cnt + 1 = u.len)

----------------------------------------------------------------------------
VARIABLES fn, call, pc, ret, xfail, phase, orig, gen, util

vars == <<fn, call, pc, ret, xfail, phase, orig, gen, util>>

Init ==
    /\ fn \in {"compress", "decompress"}
    /\ \E s \in (IF fn = "compress" THEN CompressSources ELSE DecompressSources) :
         \E hd \in BOOLEAN :
           \E dl \in (IF hd THEN DlenChoices(fn, s) ELSE 0..SmallCap) :
              call = NewCall(s, hd, dl)
    /\ pc = "loop"
    /\ ret = 0
    /\ xfail = FALSE
    /\ phase = "call"
    /\ orig = <<>>
    /\ gen = GenIdle
    /\ util = UtilIdle

CompressIter ==
    /\ pc = "loop" /\ fn = "compress"
    /\ CompressLoopCond(call)
    /\ call' = goldbox_compress_iter(call)
    /\ UNCHANGED <<fn, pc, ret, xfail, phase, orig, gen, util>>

DecompressIter ==
    /\ pc = "loop" /\ fn = "decompress"
    /\ DecompressLoopCond(call)
    /\ \E junk \in JunkBytes : call' = goldbox_decompress_iter(call, junk)
    /\ UNCHANGED <<fn, pc, ret, xfail, phase, orig, gen, util>>

LoopCond == IF fn = "compress" THEN CompressLoopCond(call) ELSE DecompressLoopCond(call)

(* Both exit assertions hold: the call returns wp. *)
Return ==
    /\ pc = "loop" /\ ~LoopCond
    /\ ExitAssertCursor(call) /\ ExitAssertBound(call)
    /\ pc' = "done"
    /\ ret' = call.wp
    /\ UNCHANGED <<fn, call, xfail, phase, orig, gen, util>>

(* An exit assertion fails: a build with assertions aborts. *)
AssertAbort ==
    /\ pc = "loop" /\ ~LoopCond
    /\ ~(ExitAssertCursor(call) /\ ExitAssertBound(call))
    /\ pc' = "aborted"
    /\ xfail' = TRUE
    /\ UNCHANGED <<fn, call, ret, phase, orig, gen, util>>

(* An exit assertion fails: a build with NDEBUG returns wp all the same. *)
AssertSkipped ==
    /\ pc = "loop" /\ ~LoopCond
    /\ ~(ExitAssertCursor(call) /\ ExitAssertBound(call))
    /\ pc' = "done"
    /\ xfail' = TRUE
    /\ ret' = call.wp
    /\ UNCHANGED <<fn, call, phase, orig, gen, util>>

(* roundtrip(): decompress the compressed output into a malloc'd buffer of
   the length of the test input; malloc(0) may or may not return NULL. *)
Roundtrip ==
    /\ pc = "done" /\ fn = "compress" /\ phase = "call"
    /\ call.hasDest /\ call.dlen >= LenCheck("compress", call.src)
    /\ fn' = "decompress"
    /\ \E hd \in (IF Len(call.src) = 0 THEN BOOLEAN ELSE {TRUE}) :
          call' = NewCall(SubSeq(call.dest, 1, ret), hd, Len(call.src))
    /\ orig' = call.src
    /\ phase' = "roundtrip"
    /\ pc' = "loop"
    /\ ret' = 0
    /\ UNCHANGED <<xfail, gen, util>>

Next ==
    \/ CompressIter
    \/ DecompressIter
    \/ Return
    \/ AssertAbort
    \/ AssertSkipped
    \/ Roundtrip

Spec == Init /\ [][Next]_vars

----------------------------------------------------------------------------
(* rle-genops.c: main() and the routines it runs on the chosen parser *)

codec == <<fn, call, pc, ret, xfail, phase, orig>>

GenInit ==
    /\ fn = "compress" /\ call = CallIdle /\ pc = "idle" /\ ret = 0
    /\ xfail = FALSE /\ phase = "idle" /\ orig = <<>>
    /\ \E p \in Parsers : \E opt_genc \in BOOLEAN : gen = NewGen(p, opt_genc)
    /\ util = UtilIdle

(* rle8_display_ops: one pass of the loop body *)
DisplayOpsStep ==
    /\ gen.routine = "display_ops" /\ gen.i < 256
    /\ LET b == gen.i
           cmd == rle8_decode(gen.p, b)
           b_recode == rle8_encode(gen.p, cmd)
       IN  IF cmd.op # "INVALID"
           THEN IF b # b_recode.cnt
                THEN gen' = [gen EXCEPT !.b = b, !.cmd = cmd, !.code = b_recode, !.coded = TRUE,
                                        !.retval = 1, !.routine = "exit"]
                ELSE gen' = [gen EXCEPT !.b = b, !.cmd = cmd, !.code = b_recode, !.coded = TRUE,
                                        !.i = b + 1]
           ELSE gen' = [gen EXCEPT !.b = b, !.cmd = cmd, !.coded = FALSE, !.i = b + 1]
    /\ UNCHANGED <<codec, util>>

DisplayOpsReturn ==
    /\ gen.routine = "display_ops" /\ gen.i = 256
    /\ gen' = [gen EXCEPT !.retval = 0, !.routine = "exit"]
    /\ UNCHANGED <<codec, util>>

(* rle8_generate_decode_table *)
DecodeTableStep ==
    /\ gen.routine = "decode_table" /\ gen.i < 256
    /\ gen' = [gen EXCEPT !.dtab = Append(@, rle8_decode(gen.p, gen.i)), !.i = @ + 1]
    /\ UNCHANGED <<codec, util>>

DecodeTableReturn ==
    /\ gen.routine = "decode_table" /\ gen.i = 256
    /\ gen' = [gen EXCEPT !.routine = "encode_tables", !.i = 0, !.k = 1]
    /\ UNCHANGED <<codec, util>>

(* rle8_generate_encode_tables: the loops over RLE_OP_CPY, RLE_OP_REP and
   RLE_OP_LIT, one table cell a step; -1 is the "no encoding" cell *)
EncodeTablesStep ==
    /\ gen.routine = "encode_tables" /\ gen.i < 256
    /\ LET op == TableOps[gen.k]
           cmd == rle8(op, gen.i)
           code == rle8_encode(gen.p, cmd)
           cell == IF code.op # "INVALID" THEN code.cnt ELSE -1
       IN  gen' = [gen EXCEPT !.etab[op] = Append(@, cell), !.i = @ + 1]
    /\ UNCHANGED <<codec, util>>

EncodeTablesNext ==
    /\ gen.routine = "encode_tables" /\ gen.i = 256
    /\ IF gen.k < Len(TableOps)
       THEN gen' = [gen EXCEPT !.k = @ + 1, !.i = 0]
       ELSE gen' = [gen EXCEPT !.routine = "generate_table", !.i = 0]
    /\ UNCHANGED <<codec, util>>

(* rle8_generate_table: scan of the 256 decodings *)
GenerateTableStep_FirstOnly ==
    /\ gen.routine = "generate_table" /\ gen.i < 256
    /\ LET cmd == rle8_decode(gen.p, gen.i)
           mm == gen.minmax
           mm1 == IF cmd.op \in {"CPY", "REP", "LIT"}
                  THEN LET lo == IF cmd.cnt < mm[cmd.op][1] THEN cmd.cnt ELSE mm[cmd.op][1]
                           hi == IF cmd.cnt > mm[cmd.op][2] /\ mm[cmd.op][2] = IntMin
                                 THEN cmd.cnt ELSE mm[cmd.op][2]
                       IN  [mm EXCEPT ![cmd.op] = <<lo, hi>>]
                  ELSE mm
       IN  gen' = [gen EXCEPT !.minmax = mm1, !.op_usage[cmd.op] = @ + 1, !.i = @ + 1]
    /\ UNCHANGED <<codec, util>>

GenerateTableStep ==
    /\ gen.routine = "generate_table" /\ gen.i < 256
    /\ LET cmd == rle8_decode(gen.p, gen.i)
           mm == gen.minmax
           mm1 == IF cmd.op \in {"CPY", "REP", "LIT"}
                  THEN LET lo == IF cmd.cnt < mm[cmd.op][1] THEN cmd.cnt ELSE mm[cmd.op][1]
                           hi == IF cmd.cnt > mm[cmd.op][2] THEN cmd.cnt ELSE mm[cmd.op][2]
                       IN  [mm EXCEPT ![cmd.op] = <<lo, hi>>]
                  ELSE mm
       IN  gen' = [gen EXCEPT !.minmax = mm1, !.op_usage[cmd.op] = @ + 1, !.i = @ + 1]
    /\ UNCHANGED <<codec, util>>

GenerateTableReturn ==
    /\ gen.routine = "generate_table" /\ gen.i = 256
    /\ gen' = [gen EXCEPT !.op_used = {op \in Ops \ {"INVALID"} : gen.op_usage[op] > 0},
                          !.routine = "exit"]
    /\ UNCHANGED <<codec, util>>

GenNext ==
    \/ DisplayOpsStep
    \/ DisplayOpsReturn
    \/ DecodeTableStep
    \/ DecodeTableReturn
    \/ EncodeTablesStep
    \/ EncodeTablesNext
    \/ GenerateTableStep
    \/ GenerateTableReturn

SpecGen == GenInit /\ [][GenNext]_vars

----------------------------------------------------------------------------
(* test_utility.c: calls of rle_count_rep and rle_count_cpy *)

others == <<fn, call, pc, ret, xfail, phase, orig, gen>>

UtilInit ==
    /\ fn = "compress" /\ call = CallIdle /\ pc = "idle" /\ ret = 0
    /\ xfail = FALSE /\ phase = "idle" /\ orig = <<>>
    /\ gen = GenIdle
    /\ \E f \in {"rep", "cpy"} : \E s \in ShortSeqs(Vals, MaxLen) :
         \E max \in (0..(2 * MaxLen)) \cup {TestMax} :
            util = NewUtil(f, s, max)

(* rle_count_rep: if (len && max) enters the do-while, else returns 0 *)
RepEnter ==
    /\ util.f = "rep" /\ util.at = "entry"
    /\ IF util.len # 0 /\ util.max # 0
       THEN util' = [util EXCEPT !.at = "body"]
       ELSE util' = [util EXCEPT !.at = "done"]
    /\ UNCHANGED others

(* do { ++cnt; } while (...): one pass of the body and the test after it *)
RepBody ==
    /\ util.f = "rep" /\ util.at = "body"
    /\ LET cnt == util.cnt + 1
       IN  util' = [util EXCEPT
                      !.cnt = cnt,
                      !.oobr = @ \/ (RepReads(util, cnt) /\ cnt >= util.len),
                      !.at = IF RepWhile(util, cnt) THEN "body" ELSE "done"]
    /\ UNCHANGED others

(* rle_count_cpy: while (...) { ++cnt; } -- the test and, if it holds, the body *)
CpyTest ==
    /\ util.f = "cpy" /\ util.at \in {"entry", "body"}
    /\ util' = [util EXCEPT
                  !.oobr = @ \/ (CpyReads(util, util.cnt) /\ util.cnt + 1 >= util.len),
                  !.cnt = IF CpyWhile(util, util.cnt) THEN @ + 1 ELSE @,
                  !.at = IF CpyWhile(util, util.cnt) THEN "body" ELSE "done"]
    /\ UNCHANGED others

UtilNext ==
    \/ RepEnter
    \/ RepBody
    \/ CpyTest

SpecUtil == UtilInit /\ [][UtilNext]_vars

----------------------------------------------------------------------------
(* Properties of the codec *)

(* Every token of the stream s, read from offset p on, has its payload:
   a control byte with the top bit set is followed by one byte, any other
   control byte b by b+1 bytes. *)
RECURSIVE TokenComplete(_, _)
TokenComplete(s, p) ==
    IF p >= Len(s) THEN p = Len(s)
    ELSE IF s[p + 1] >= 128 THEN p + 2 <= Len(s) /\ TokenComplete(s, p + 2)
    ELSE p + 2 + s[p + 1] <= Len(s) /\ TokenComplete(s, p + 2 + s[p + 1])

InScope == fn = "compress" \/ TokenComplete(call.src, 0)
FullLen == LenCheck(fn, call.src)
Oversized ==
    IF fn = "compress" THEN goldbox_compress(call.src, TRUE, FullLen + Slack)
                       ELSE goldbox_decompress(call.src, TRUE, FullLen + Slack)
IsRun(s) == Len(s) >= 1 /\ \A i \in 1..Len(s) : s[i] = s[1]

(* C1: round trip.  Compressing any source buffer into a destination of
   sufficient capacity and decompressing that output into a buffer of the
   source's length never trips an assertion, returns the source's length
   and reproduces the source byte for byte. *)
C1_RoundTrip ==
    phase = "roundtrip" =>
        /\ pc # "aborted"
        /\ pc = "done" => (~xfail /\ ret = Len(orig) /\ call.dest = orig)

C1_Witness ==
    /\ phase = "roundtrip" /\ pc = "done"
    /\ Len(orig) > CpyCap + 1 /\ ~IsRun(orig)
    /\ ret = Len(orig) /\ call.dest = orig

(* C2: length-probe consistency.  A call with dest absent (whatever the
   capacity), with an oversized dest, or with a dest of exactly the probed
   length returns the length the NULL/0 probe returns; for decompress this
   is stated of token-complete streams. *)
C2_LengthProbe ==
    (InScope /\ (~call.hasDest \/ call.dlen = FullLen \/ call.dlen = FullLen + Slack)) =>
        /\ pc # "aborted"
        /\ pc = "done" => (~xfail /\ ret = FullLen)

C2_Witness ==
    /\ pc = "done" /\ phase = "call" /\ fn = "decompress"
    /\ call.hasDest /\ call.dlen = FullLen /\ ret = FullLen /\ ret >= 2
    /\ Len(call.src) = MaxStream

(* C3: exact-capacity equivalence.  A call whose capacity equals the probed
   length leaves in dest exactly the bytes an oversized call writes. *)
C3_ExactCapacity ==
    (InScope /\ pc = "done" /\ call.hasDest /\ call.dlen = FullLen) =>
        /\ call.dest = SubSeq(Oversized.dest, 1, FullLen)
        /\ call.wr = Oversized.wr

C3_Witness ==
    /\ pc = "done" /\ phase = "call" /\ fn = "compress"
    /\ call.hasDest /\ call.dlen = FullLen /\ FullLen > 4
    /\ call.dest = SubSeq(Oversized.dest, 1, FullLen)
    /\ call.wr = 0..(FullLen - 1)

(* C4: truncation accounting, as claimed.  With dest present and a capacity
   below the full output the call consumes the whole source, its exit
   assertions hold, and it returns the full output length. *)
C4_TruncationAccounting ==
    (InScope /\ phase = "call" /\ call.hasDest /\ call.dlen < FullLen) =>
        /\ pc # "aborted"
        /\ pc = "done" => (~xfail /\ call.rp = Len(call.src) /\ ret = FullLen)

(* C5: no out-of-bounds write.  Every store goes to an offset below dlen,
   and a call without dest stores nothing. *)
C5_NoOobWrite ==
    /\ ~call.oobw
    /\ call.wr \subseteq 0..(call.dlen - 1)
    /\ ~call.hasDest => (call.wr = {} /\ call.dest = <<>>)

C5_Witness ==
    /\ pc = "done" /\ phase = "call" /\ fn = "compress"
    /\ call.hasDest /\ call.dlen = 1 /\ call.wp = 2
    /\ call.wr = {0} /\ ~call.oobw

(* C9: single-run wire format.  n copies of v, 1 <= n <= 127, compress to
   the two bytes <<256-n, v>>; the two bytes <<256-n, v>> decompress to n
   copies of v. *)
C9_SingleRun ==
    /\ (pc = "done" /\ phase = "call" /\ fn = "compress"
          /\ IsRun(call.src) /\ Len(call.src) <= 127
          /\ (~call.hasDest \/ call.dlen >= 2)) =>
            /\ ret = 2
            /\ call.hasDest =>
                 SubSeq(call.dest, 1, 2) = <<256 - Len(call.src), call.src[1]>>
    /\ (pc = "done" /\ phase = "call" /\ fn = "decompress"
          /\ Len(call.src) = 2 /\ call.src[1] >= 129
          /\ (~call.hasDest \/ call.dlen >= 256 - call.src[1])) =>
            /\ ret = 256 - call.src[1]
            /\ call.hasDest =>
                 SubSeq(call.dest, 1, ret) = RepSeq(call.src[2], 256 - call.src[1])

C9_Witness ==
    /\ pc = "done" /\ phase = "call" /\ fn = "compress"
    /\ call.src = RepSeq(65, 16) /\ call.hasDest /\ call.dlen = 2
    /\ ret = 2 /\ call.dest = <<240, 65>>

(* C10: no undefined read on malformed input, as claimed.  goldbox_decompress
   reads only source offsets below slen and, given room for its whole
   output, ends with its cursor at the end of the source. *)
C10_NoUndefinedRead ==
    fn = "decompress" =>
        /\ ~call.oobr
        /\ (pc # "loop" /\ (~call.hasDest \/ call.dlen >= FullLen)) =>
              (pc = "done" /\ ~xfail /\ call.rp = Len(call.src))

----------------------------------------------------------------------------
(* Properties of the rule sets and the generator *)

(* C6: control-byte self-consistency, as claimed.  Whenever the byte b that
   rle8_display_ops has just decoded is not Invalid, re-encoding the decoded
   operation succeeds (its op is not Invalid) and gives back b; this covers
   the packbits NoOp byte 0x80. *)
C6_SelfConsistency ==
    (gen.routine \in {"display_ops", "exit"} /\ gen.cmd.op # "INVALID") =>
        /\ gen.coded
        /\ gen.code.op # "INVALID"
        /\ gen.code.cnt = gen.b

(* C7: the decode rules are bit-exact.  Every entry of the decode table, and
   every decoding rle8_display_ops makes, is the operation and count the
   rule table states for that byte, and the finished table has an entry for
   each of the 256 bytes. *)
DecodeRule(p, b) ==
    IF p = "goldbox"
    THEN IF b >= 129 THEN rle8("REP", 256 - b)
         ELSE IF b <= 125 THEN rle8("CPY", b + 1)
         ELSE rle8("INVALID", 0)
    ELSE IF p = "packbits"
    THEN IF b > 128 THEN rle8("REP", 257 - b)
         ELSE IF b < 128 THEN rle8("CPY", b + 1)
         ELSE rle8("NOP", 1)
    ELSE IF b >= 192 THEN rle8("REP", b % 64)
         ELSE rle8("LIT", b)

C7_DecodeRules ==
    /\ \A n \in 1..Len(gen.dtab) : gen.dtab[n] = DecodeRule(gen.p, n - 1)
    /\ gen.routine \in {"encode_tables", "generate_table"} => Len(gen.dtab) = 256
    /\ (gen.routine = "display_ops" /\ gen.i > 0) =>
          (gen.b = gen.i - 1 /\ gen.cmd = DecodeRule(gen.p, gen.b))

C7_Witness ==
    /\ gen.p = "goldbox" /\ gen.routine = "encode_tables" /\ Len(gen.dtab) = 256
    /\ gen.dtab[126] = rle8("CPY", 126)
    /\ gen.dtab[127].op = "INVALID" /\ gen.dtab[129].op = "INVALID"
    /\ gen.dtab[130] = rle8("REP", 127)

(* C8: encode_op rejects exactly the out-of-range operations.  A cell of the
   encode tables (kinds Copy, Repeat, Literal; counts 0..255) holds an
   encoding if and only if the count is in the range declared for that kind
   and variant, and the kinds a variant has no encoding for (NoOp for
   goldbox and pcx, Invalid for all) are rejected for every count. *)
DeclaredRange(p, op) ==
    IF p = "goldbox" THEN (IF op = "REP" THEN 1..127 ELSE IF op = "CPY" THEN 1..126 ELSE {})
    ELSE IF p = "packbits" THEN (IF op = "REP" THEN 2..128 ELSE IF op = "CPY" THEN 1..128 ELSE {})
    ELSE (IF op = "REP" THEN 0..63 ELSE IF op = "LIT" THEN 0..191 ELSE {})

C8_EncodeRejects ==
    /\ \A op \in {"CPY", "REP", "LIT"} :
         \A n \in 1..Len(gen.etab[op]) :
            (gen.etab[op][n] # -1) <=> ((n - 1) \in DeclaredRange(gen.p, op))
    /\ gen.routine = "generate_table" =>
         \A op \in {"CPY", "REP", "LIT"} : Len(gen.etab[op]) = 256
    /\ gen.routine = "encode_tables" =>
         \A op \in (IF gen.p = "packbits" THEN {"INVALID"} ELSE {"NOP", "INVALID"}) :
            rle8_encode(gen.p, rle8(op, gen.i % 256)).op = "INVALID"

C8_Witness ==
    /\ gen.p = "goldbox" /\ gen.routine = "generate_table"
    /\ gen.etab["CPY"][1] = -1 /\ gen.etab["CPY"][127] = 125 /\ gen.etab["CPY"][128] = -1
    /\ gen.etab["REP"][128] = 129 /\ gen.etab["REP"][129] = -1
    /\ \A n \in 1..256 : gen.etab["LIT"][n] = -1

----------------------------------------------------------------------------
(* Properties of the run-counting helpers *)

AllEqual(s) == \A i \in 1..Len(s) : s[i] = s[1]
StrictlyAlternating(s) == \A i \in 1..(Len(s) - 1) : s[i] # s[i + 1]
Min(a, b) == IF a < b THEN a ELSE b
RepDone == util.f = "rep" /\ util.at = "done"
CpyDone == util.f = "cpy" /\ util.at = "done"

(* The cases of C11 that do not depend on how max = 0 is read *)
C11_Common ==
    /\ util.f = "rep" => ~util.oobr
    /\ RepDone =>
         /\ util.len = 0 => util.cnt = 0
         /\ (util.len = 1 /\ util.max >= 1) => util.cnt = 1
         /\ (AllEqual(util.src) /\ util.max >= util.len) => util.cnt = util.len
         /\ (AllEqual(util.src) /\ util.max < util.len) => util.cnt = util.max
         /\ (util.src = <<66, 66, 66, 66, 65>> /\ util.max = TestMax) => util.cnt = 4

(* C11 as claimed: rle_count_rep returns 0 for length 0, 1 for length 1
   with max >= 1, n for an all-equal buffer with max >= n, max when max is
   below the run, 4 for "BBBBA", never reads at or beyond len, and returns 1
   on every strictly alternating buffer of two or more bytes whatever max
   is (lengths 0 and 1 have their own cases). *)
C11_CountRep_Claimed ==
    /\ C11_Common
    /\ (RepDone /\ util.len >= 2 /\ StrictlyAlternating(util.src)) => util.cnt = 1

(* C11 amended: as claimed, the strictly alternating case holding for
   max >= 1 (with max = 0 the result is 0). *)
C11_CountRep ==
    /\ C11_Common
    /\ (RepDone /\ util.len >= 2 /\ StrictlyAlternating(util.src)) =>
          util.cnt = (IF util.max >= 1 THEN 1 ELSE 0)

C11_Witness ==
    /\ RepDone /\ util.src = <<65, 66, 65, 66>> /\ util.max = 2 * util.len
    /\ util.cnt = 1 /\ ~util.oobr

(* The cases of C12 that do not depend on how max = 0 is read *)
C12_Common ==
    /\ util.f = "cpy" => ~util.oobr
    /\ CpyDone =>
         /\ StrictlyAlternating(util.src) => util.cnt = Min(util.len, util.max)
         /\ (util.len >= 2 /\ util.src[1] = util.src[2]) => util.cnt = 0
         /\ util.len = 0 => util.cnt = 0
         /\ (util.src = <<65, 66>> /\ util.max = TestMax) => util.cnt = 2
         /\ (util.src = <<65, 66, 66>> /\ util.max = TestMax) => util.cnt = 1

(* C12 as claimed: rle_count_cpy returns min(len, max) on a strictly
   alternating buffer, 0 when the first two bytes are equal, 0 on length 0,
   2 for "AB", 1 for "ABB", never reads at or beyond len, and returns 1 on
   every length-1 input whatever max is. *)
C12_CountCpy_Claimed ==
    /\ C12_Common
    /\ (CpyDone /\ util.len = 1) => util.cnt = 1

(* C12 amended: as claimed, the length-1 case holding for max >= 1 (with
   max = 0 the result is 0). *)
C12_CountCpy ==
    /\ C12_Common
    /\ (CpyDone /\ util.len = 1) => util.cnt = (IF util.max >= 1 THEN 1 ELSE 0)

C12_Witness ==
    /\ CpyDone /\ util.src = <<65>> /\ util.max = 2
    /\ util.cnt = 1 /\ ~util.oobr

----------------------------------------------------------------------------
(* Properties of the compressor's and decompressor's operations *)

(* Offset in dest of the control byte of the last compress operation *)
LastStart == call.wp - (IF call.op = "REP" THEN 2 ELSE call.n + 1)

(* The stream s, read from offset p on, is a sequence of whole tokens whose
   control bytes are Copy bytes <= 0x7D or Repeat bytes >= 0x81. *)
RECURSIVE RepresentableStream(_, _)
RepresentableStream(s, p) ==
    IF p >= Len(s) THEN p = Len(s)
    ELSE IF s[p + 1] >= 129 THEN RepresentableStream(s, p + 2)
    ELSE IF s[p + 1] <= 125 THEN RepresentableStream(s, p + 2 + s[p + 1])
    ELSE FALSE

(* Offset of the control byte of the last token of the token-complete,
   non-empty stream s *)
RECURSIVE LastControl(_, _)
LastControl(s, p) ==
    LET q == IF s[p + 1] >= 128 THEN p + 2 ELSE p + 2 + s[p + 1]
    IN  IF q >= Len(s) THEN p ELSE LastControl(s, q)

FullOutput == pc = "done" /\ fn = "compress" /\ call.hasDest /\ call.dlen >= FullLen

(* C13: the compressor emits only representable operations.  The control
   byte of every operation goldbox_compress emits is a Copy byte <= 0x7D
   with count 1..126 or a Repeat byte >= 0x81 with count 1..127, it is the
   byte stored in dest, and a complete output parses into such tokens. *)
C13_Representable ==
    /\ (fn = "compress" /\ call.op = "REP") =>
          (call.b >= 129 /\ call.n = 256 - call.b /\ call.n \in 1..127)
    /\ (fn = "compress" /\ call.op = "CPY") =>
          (call.b <= 125 /\ call.n = call.b + 1 /\ call.n \in 1..126)
    /\ (fn = "compress" /\ call.op # "none" /\ call.hasDest) =>
          call.dest[LastStart + 1] = call.b
    /\ FullOutput => RepresentableStream(SubSeq(call.dest, 1, ret), 0)

C13_Witness ==
    /\ FullOutput /\ ret > CpyCap + 4
    /\ call.dest[1] = 125 /\ call.dest[CpyCap + 2] = 0
    /\ RepresentableStream(SubSeq(call.dest, 1, ret), 0)

(* C14: the trailing-byte rule.  For a non-empty source the last operation
   emitted is a Repeat whose value byte is the final source byte, a Copy
   never reaches the final source byte, and a final byte that differs from
   the byte before it is emitted as a Repeat of one (control byte 0xFF). *)
C14_TrailingRepeat ==
    /\ (fn = "compress" /\ call.op = "CPY") => call.rp < Len(call.src)
    /\ (fn = "compress" /\ call.op # "none" /\ call.rp = Len(call.src)) =>
          /\ call.op = "REP"
          /\ (Len(call.src) = 1 \/ call.src[Len(call.src) - 1] # call.src[Len(call.src)])
                => (call.n = 1 /\ call.b = 255)
    /\ (FullOutput /\ Len(call.src) > 0) =>
          LET out == SubSeq(call.dest, 1, ret)
              p == LastControl(out, 0)
          IN  /\ out[p + 1] >= 129
              /\ p + 2 = ret
              /\ out[p + 2] = call.src[Len(call.src)]

C14_Witness ==
    /\ FullOutput /\ call.src = <<65, 66, 65>>
    /\ call.dest = <<1, 65, 66, 255, 65>>

(* C15: forward progress.  Every pass of goldbox_compress's loop moves the
   read cursor forward by the count of the operation it emits, which is at
   least one, the assertion cnt > 0 never fails, the cursor never passes
   the end of the source, and a length-determination pass ends with the
   cursor at the end of the source: the operations cover the source bytes
   once each, in order.  slen - rp is a natural number that every pass
   decreases, so the loop makes at most slen passes. *)
C15_ProgressStep ==
    (fn = "compress" /\ pc = "loop" /\ call' # call) =>
        /\ call'.rp = call.rp + call'.n
        /\ call'.n >= 1
        /\ call'.rp <= Len(call.src)
        /\ ~call'.afail

C15_ForwardProgress ==
    /\ [][C15_ProgressStep]_vars
    /\ [](fn = "compress" => (~call.afail /\ call.rp <= Len(call.src)))
    /\ []((fn = "compress" /\ pc # "loop" /\ ~call.hasDest) =>
             (pc = "done" /\ call.rp = Len(call.src)))

C15_Witness ==
    /\ fn = "compress" /\ pc = "done" /\ ~call.hasDest
    /\ Len(call.src) = CpyCap + 3 /\ call.rp = Len(call.src)
    /\ ret = CpyCap + 5

(* C16: the decompressor follows the rule set, as claimed.  For every
   control byte b it reads, goldbox_decompress performs the operation and
   count rle8_decode_goldbox(b) gives, and for a byte the rule set maps to
   Invalid (0x7E, 0x7F, 0x80) it produces no output. *)
C16_FollowsRuleSet ==
    (fn = "decompress" /\ call.op # "none") =>
        LET d == rle8_decode_goldbox(call.b)
        IN  IF d.op = "INVALID" THEN call.n = 0
            ELSE call.op = d.op /\ call.n = d.cnt

(* The counts the rule set p decodes to operations of kind op *)
CountsOf(p, op) == {rle8_decode(p, b).cnt : b \in {x \in 0..255 : rle8_decode(p, x).op = op}}

SetMin(S) == CHOOSE x \in S : \A y \in S : x <= y

SetMax(S) == CHOOSE x \in S : \A y \in S : x >= y

Documented ==
    [goldbox  |-> [CPY |-> <<1, 126>>, REP |-> <<1, 127>>, used |-> {"CPY", "REP"}],
     packbits |-> [CPY |-> <<1, 128>>, REP |-> <<2, 128>>, used |-> {"CPY", "REP", "NOP"}],
     pcx      |-> [CPY |-> <<IntMax, IntMin>>, REP |-> <<0, 63>>, used |-> {"REP", "LIT"}]]

(* C17: range discovery.  When rle8_generate_table has scanned all 256
   decodings of a rule set, the minimum and maximum count it holds for each
   kind are the least and greatest counts the rule set decodes to that
   kind (the initial INT_MAX, INT_MIN where the kind never occurs), they
   are the documented ranges (goldbox Copy 1-126, Repeat 1-127; packbits
   Copy 1-128, Repeat 2-128; pcx Repeat 0-63), and the usage count of a
   kind is non-zero exactly when the rule set decodes some byte to it: no
   NoOp for goldbox, no Copy for pcx. *)
TableGenerated == gen.routine = "exit" /\ Len(gen.dtab) = 256

C17_RangeDiscovery ==
    TableGenerated =>
        /\ \A op \in {"CPY", "REP", "LIT"} :
              gen.minmax[op] = IF CountsOf(gen.p, op) = {} THEN <<IntMax, IntMin>>
                               ELSE <<SetMin(CountsOf(gen.p, op)), SetMax(CountsOf(gen.p, op))>>
        /\ \A op \in Ops : (gen.op_usage[op] > 0) <=> (\E b \in 0..255 : rle8_decode(gen.p, b).op = op)
        /\ gen.minmax["CPY"] = Documented[gen.p].CPY
        /\ gen.minmax["REP"] = Documented[gen.p].REP
        /\ gen.op_used = Documented[gen.p].used
        /\ gen.p = "goldbox" => gen.op_usage["NOP"] = 0
        /\ gen.p = "pcx" => gen.op_usage["CPY"] = 0

C17_Witness ==
    /\ TableGenerated /\ gen.p = "packbits"
    /\ gen.minmax["REP"] = <<2, 128>> /\ gen.minmax["CPY"] = <<1, 128>>
    /\ gen.op_usage["NOP"] = 1

(* C18: truncated output is a prefix of the full output.  When a call with
   dest present returns, the destination bytes below min(dlen, full output
   length) are those of the oversized call, exactly those offsets were
   stored to, and every other destination byte is unchanged; for decompress
   this is stated of token-complete streams. *)
C18_TruncatedPrefix ==
    (pc = "done" /\ call.hasDest /\ InScope) =>
        LET m == IF call.dlen < FullLen THEN call.dlen ELSE FullLen
        IN  /\ \A k \in 1..m : call.dest[k] = Oversized.dest[k]
            /\ call.wr = 0..(m - 1)
            /\ \A k \in (m + 1)..call.dlen : call.dest[k] \in FillBytes

C18_Witness ==
    /\ pc = "done" /\ phase = "call" /\ fn = "compress" /\ call.hasDest
    /\ call.op = "CPY" /\ call.n > 2
    /\ call.dlen = 2 /\ call.dlen < FullLen
    /\ call.dest = SubSeq(Oversized.dest, 1, 2)

====
